---------------------------- MODULE Spec2Model ----------------------------
(* State machine of the Home component of co_writer/src/app/page.tsx.       *)
(*                                                                          *)
(* Every React event handler runs to completion on the state of the last    *)
(* render; an async handler is split at its await: the part before the      *)
(* fetch is one action, the continuation that runs when the fetch settles   *)
(* is another.  A text is a sequence of tokens; a token is a whitespace     *)
(* character or a chunk of non-whitespace text.  Message timestamps and the *)
(* profile fields (aboutMe, preferredStyle, tone) are left out: no handler  *)
(* reads them back.  window.alert blocks the event loop until dismissed, so *)
(* a handler that alerts is one step and nothing runs until DismissAlert.   *)
EXTENDS Integers, Sequences, FiniteSets, TLC

VARIABLES
    actions,          \* useState<ActionButton[]>(defaultActions)
    llmConfig,        \* useState<LLMConfig>({ type: null })
    isConnecting,
    editorContent,
    isProcessing,
    messages,
    inputMessage,
    isChatProcessing,
    error,            \* LLMConnectionModal: inline validation error
    alert,            \* the window.alert dialog showing: <<>> or <<its text>>
    chatCalls,        \* POST /api/chat requests issued and not yet resolved
    actionCalls,      \* POST /api/submit_action requests issued, not resolved
    connectCalls      \* POST /api/connect_llm requests issued, not resolved

vars == <<actions, llmConfig, isConnecting, editorContent, isProcessing,
          messages, inputMessage, isChatProcessing, error, alert,
          chatCalls, actionCalls, connectCalls>>

listVars == <<actions>>
sessionVars == <<llmConfig, isConnecting, editorContent, isProcessing,
                 messages, inputMessage, isChatProcessing, error, alert,
                 chatCalls, actionCalls, connectCalls>>

-----------------------------------------------------------------------------
(* Bounds of the model *)

MaxActions == 3       \* longest action list explored
MaxSends == 2         \* most user messages in the chat transcript explored
MaxInFlight == 2      \* most unresolved requests of one kind explored

-----------------------------------------------------------------------------
(* Texts *)

WhiteSpace == {" ", "\t", "\n"}

RECURSIVE trimStart(_)
trimStart(s) ==
    IF s # <<>> /\ Head(s) \in WhiteSpace THEN trimStart(Tail(s)) ELSE s

RECURSIVE trimEnd(_)
trimEnd(s) ==
    IF s # <<>> /\ s[Len(s)] \in WhiteSpace
    THEN trimEnd(SubSeq(s, 1, Len(s) - 1))
    ELSE s

\* String.prototype.trim
trim(s) == trimEnd(trimStart(s))

\* JavaScript truthiness of a string: only '' is falsy
Truthy(s) == s # <<>>

NULL == "null"


-----------------------------------------------------------------------------
(* Action list: the Configure tab *)

defaultActions ==
    << [id |-> "1", name |-> "Expand",
        action |-> "Expand the text while maintaining the context",
        emoji |-> "sparkles"],
       [id |-> "2", name |-> "Shorten",
        action |-> "Make the text more concise",
        emoji |-> "scissors"],
       [id |-> "3", name |-> "Critique",
        action |-> "Provide feedback on the writing",
        emoji |-> "target"] >>

\* Partial<ActionButton> values an item's inputs send to onUpdate: the name
\* input and the emoji picker (the action textarea sends { action } the same
\* way the name input sends { name })
Updates ==
    { [name |-> "Rewrite"], [emoji |-> "pen"] }

\* over?.id when the drag ends over no droppable
Undefined == "undefined"

ItemIds(items) == { items[i].id : i \in 1..Len(items) }

\* String(actions.length + 1)
newId(items) == ToString(Len(items) + 1)

handleAddAction ==
    /\ Len(actions) < MaxActions
    /\ actions' = Append(actions,
                    [id |-> newId(actions), name |-> "New Action",
                     action |-> "Describe what this action should do...",
                     emoji |-> "diamond"])

\* { ...a, ...updates }
merge(a, updates) ==
    [f \in DOMAIN a |-> IF f \in DOMAIN updates THEN updates[f] ELSE a[f]]

handleUpdateAction(id, updates) ==
    actions' = [i \in 1..Len(actions) |->
                  IF actions[i].id = id THEN merge(actions[i], updates)
                  ELSE actions[i]]

handleDeleteAction(id) ==
    actions' = SelectSeq(actions, LAMBDA a : a.id # id)

\* Array.prototype.findIndex, 0-based, -1 when no element matches
findIndex(items, id) ==
    IF \E i \in 1..Len(items) : items[i].id = id
    THEN (CHOOSE i \in 1..Len(items) :
            /\ items[i].id = id
            /\ \A j \in 1..(i - 1) : items[j].id # id) - 1
    ELSE -1

\* the start index Array.prototype.splice uses for a list of length n
spliceStart(start, n) ==
    IF start < 0 THEN (IF n + start < 0 THEN 0 ELSE n + start)
    ELSE (IF start > n THEN n ELSE start)

\* the list without the element splice(from, 1) removes
removeAt(array, from) ==
    LET k == spliceStart(from, Len(array))
    IN  SubSeq(array, 1, k) \o SubSeq(array, k + 2, Len(array))

\* the list with item inserted by splice(start, 0, item)
insertAt(array, start, item) ==
    LET k == spliceStart(start, Len(array))
    IN  SubSeq(array, 1, k) \o <<item>> \o SubSeq(array, k + 1, Len(array))

\* seeded fault: the moved element overwrites the target slot
arrayMove_overwrite(array, from, to) ==
    LET target == IF to < 0 THEN Len(array) + to ELSE to
    IN  [array EXCEPT ![target + 1] = array[from + 1]]

\* arrayMove of @dnd-kit/sortable: the insertion index is computed on the
\* full list, then the element is removed, then inserted
arrayMove(array, from, to) ==
    LET target == IF to < 0 THEN Len(array) + to ELSE to
        k == spliceStart(from, Len(array))
    IN  IF k >= Len(array) THEN array   \* nothing to remove: not reached
        ELSE insertAt(removeAt(array, from), target, array[k + 1])

\* the list handleDragEnd leaves: setActions runs only for different ids
dragged(items, activeId, overId) ==
    IF activeId # overId
    THEN arrayMove(items, findIndex(items, activeId), findIndex(items, overId))
    ELSE items

handleDragEnd(activeId, overId) ==
    actions' = dragged(actions, activeId, overId)

AddAction == handleAddAction /\ UNCHANGED sessionVars

UpdateAction ==
    \E i \in 1..Len(actions), u \in Updates :
        handleUpdateAction(actions[i].id, u) /\ UNCHANGED sessionVars

DeleteAction ==
    \E i \in 1..Len(actions) :
        handleDeleteAction(actions[i].id) /\ UNCHANGED sessionVars

DragEnd ==
    \E activeId \in ItemIds(actions),
       overId \in ItemIds(actions) \cup {Undefined} :
        handleDragEnd(activeId, overId) /\ UNCHANGED sessionVars

-----------------------------------------------------------------------------
(* Initial state: the useState initial values of Home, lines 180-198 *)

Greeting == <<"Hello! I'm Co Writer. How can I help you today?">>

Init ==
    /\ actions = defaultActions
    /\ llmConfig = [type |-> NULL]
    /\ isConnecting = FALSE
    /\ editorContent = <<>>
    /\ isProcessing = FALSE
    /\ messages = << [text |-> Greeting, isUser |-> FALSE] >>
    /\ inputMessage = <<>>
    /\ isChatProcessing = FALSE
    /\ error = NULL
    /\ alert = <<>>
    /\ chatCalls = <<>>
    /\ actionCalls = <<>>
    /\ connectCalls = <<>>

-----------------------------------------------------------------------------
(* Inputs and responses explored *)

EditorTexts == { <<>>, <<" ">>, <<"draft">> }
ChatInputs == { <<>>, <<" ">>, <<"hi">> }
ApiKeys == { <<>>, <<" ">>, <<"sk-key">> }
Hosts == { <<>>, <<"http://localhost">> }
Ports == { <<" ">>, <<"8080">> }

ChatResponses ==
    { [kind |-> "ok", text |-> <<"reply">>],
      [kind |-> "http_error"], [kind |-> "network_error"], [kind |-> "bad_json"] }

ActionResponses ==
    { [kind |-> "ok", text |-> <<"revised">>],
      [kind |-> "http_error", detail |-> <<"LLM", " ", "unavailable">>],
      [kind |-> "http_error", detail |-> <<>>],
      [kind |-> "network_error"], [kind |-> "bad_json"] }

ConnectResponses ==
    { [kind |-> "json", success |-> TRUE, message |-> <<"Connected">>],
      [kind |-> "json", success |-> FALSE, message |-> <<"Invalid", " ", "key">>],
      [kind |-> "json", success |-> FALSE, message |-> <<>>],
      [kind |-> "network_error"], [kind |-> "bad_json"] }

\* error.message of what fetch and response.json() throw
thrownMessage(r) ==
    IF r.kind = "network_error" THEN <<"Failed to fetch">>
    ELSE <<"Unexpected token < in JSON at position 0">>

-----------------------------------------------------------------------------
(* Connection: LLMConnectionModal.handleConnect and handleLLMConnect *)

\* the config handleConnect builds, lines 415-418
buildConfig(selectedLLM, apiKey, host, port) ==
    IF selectedLLM = "openai"
    THEN [type |-> selectedLLM, apiKey |-> apiKey]
    ELSE [type |-> selectedLLM, host |-> host, port |-> port]

\* handleLLMConnect up to its await
handleLLMConnect(config) ==
    /\ isConnecting' = TRUE
    /\ connectCalls' = Append(connectCalls, config)

\* seeded fault: the required fields are tested without trim()
handleConnect_noTrim(selectedLLM, apiKey, host, port) ==
    IF selectedLLM = "openai" /\ ~Truthy(apiKey)
    THEN /\ error' = "API key is required"
         /\ UNCHANGED <<isConnecting, connectCalls>>
    ELSE IF selectedLLM = "llama" /\ (~Truthy(host) \/ ~Truthy(port))
    THEN /\ error' = "Host and port are required"
         /\ UNCHANGED <<isConnecting, connectCalls>>
    ELSE /\ error' = NULL
         /\ handleLLMConnect(buildConfig(selectedLLM, apiKey, host, port))

\* the form fields are the inputs of the click
handleConnect(selectedLLM, apiKey, host, port) ==
    IF selectedLLM = "openai" /\ ~Truthy(trim(apiKey))
    THEN /\ error' = "API key is required"
         /\ UNCHANGED <<isConnecting, connectCalls>>
    ELSE IF selectedLLM = "llama" /\ (~Truthy(trim(host)) \/ ~Truthy(trim(port)))
    THEN /\ error' = "Host and port are required"
         /\ UNCHANGED <<isConnecting, connectCalls>>
    ELSE /\ error' = NULL
         /\ handleLLMConnect(buildConfig(selectedLLM, apiKey, host, port))

\* what a failed connect alerts
connectFailure(r) ==
    IF r.kind = "json"
    THEN (IF Truthy(r.message) THEN r.message ELSE <<"Failed to connect to LLM">>)
    ELSE thrownMessage(r)

\* seeded fault: the catch block does not reset llmConfig
connectSettled_noRevert(i, r) ==
    /\ connectCalls' = removeAt(connectCalls, i - 1)
    /\ IF r.kind = "json" /\ r.success
       THEN /\ llmConfig' = connectCalls[i]
            /\ alert' = alert
       ELSE /\ alert' = << connectFailure(r) >>
            /\ llmConfig' = llmConfig
    /\ isConnecting' = FALSE

\* seeded fault: a successful connect does not store the config
connectSettled_noSet(i, r) ==
    /\ connectCalls' = removeAt(connectCalls, i - 1)
    /\ IF r.kind = "json" /\ r.success
       THEN /\ llmConfig' = llmConfig
            /\ alert' = alert
       ELSE /\ alert' = << connectFailure(r) >>
            /\ llmConfig' = [type |-> NULL]
    /\ isConnecting' = FALSE

\* handleLLMConnect from the settling of its fetch on: connectCalls[i]
\* settles with response r
connectSettled(i, r) ==
    /\ connectCalls' = removeAt(connectCalls, i - 1)
    /\ IF r.kind = "json" /\ r.success
       THEN /\ llmConfig' = connectCalls[i]
            /\ alert' = alert
       ELSE /\ alert' = << connectFailure(r) >>
            /\ llmConfig' = [type |-> NULL]
    /\ isConnecting' = FALSE

\* the Connect button of the dialog, disabled={isConnecting}
ConnectClick(selectedLLM, apiKey, host, port) ==
    /\ alert = <<>>
    /\ ~isConnecting
    /\ Len(connectCalls) < MaxInFlight
    /\ handleConnect(selectedLLM, apiKey, host, port)
    /\ UNCHANGED <<actions, llmConfig, editorContent, isProcessing, messages,
                   inputMessage, isChatProcessing, alert, chatCalls,
                   actionCalls>>

ConnectResolve(i, r) ==
    /\ alert = <<>>
    /\ connectSettled(i, r)
    /\ UNCHANGED <<actions, editorContent, isProcessing, messages,
                   inputMessage, isChatProcessing, error, chatCalls,
                   actionCalls>>

-----------------------------------------------------------------------------
(* Chat: handleSendMessage *)

Fallback == <<"I'm sorry, I encountered an error. Please try again.">>

\* the JSON body of POST /api/chat: an undefined context is left out
chatBody ==
    IF Truthy(editorContent)
    THEN [message |-> inputMessage,
          context |-> <<"Current editor content: ">> \o editorContent]
    ELSE [message |-> inputMessage]

\* seeded fault: isChatProcessing is not set before the fetch
sendMessage_noFlag ==
    /\ messages' = Append(messages, [text |-> inputMessage, isUser |-> TRUE])
    /\ inputMessage' = <<>>
    /\ isChatProcessing' = isChatProcessing
    /\ chatCalls' = Append(chatCalls, chatBody)

\* what handleSendMessage does past its guard, up to its await
sendMessage ==
    /\ messages' = Append(messages, [text |-> inputMessage, isUser |-> TRUE])
    /\ inputMessage' = <<>>
    /\ isChatProcessing' = TRUE
    /\ chatCalls' = Append(chatCalls, chatBody)

\* seeded fault: the input is tested without trim()
handleSendMessage_noTrim ==
    IF ~Truthy(inputMessage) \/ llmConfig.type = NULL \/ isChatProcessing
    THEN UNCHANGED <<messages, inputMessage, isChatProcessing, chatCalls>>
    ELSE sendMessage

handleSendMessage ==
    IF ~Truthy(trim(inputMessage)) \/ llmConfig.type = NULL \/ isChatProcessing
    THEN UNCHANGED <<messages, inputMessage, isChatProcessing, chatCalls>>
    ELSE sendMessage

\* seeded fault: the catch block appends no message
chatSettled_noFallback(i, r) ==
    /\ chatCalls' = removeAt(chatCalls, i - 1)
    /\ messages' = IF r.kind = "ok"
                   THEN Append(messages, [text |-> r.text, isUser |-> FALSE])
                   ELSE messages
    /\ isChatProcessing' = FALSE

\* seeded fault: the reply is appended to the list the handler captured
\* when it started, setMessages([...messages, reply]), not to the latest one
chatSettled_staleList(i, r) ==
    /\ chatCalls' = removeAt(chatCalls, i - 1)
    /\ messages' = Append(SubSeq(messages, 1, Len(messages) - 1),
                     [text |-> IF r.kind = "ok" THEN r.text ELSE Fallback,
                      isUser |-> FALSE])
    /\ isChatProcessing' = FALSE

\* seeded fault: isChatProcessing is cleared after the try block, not in
\* finally, so the catch path leaves it set
chatSettled_noFinally(i, r) ==
    /\ chatCalls' = removeAt(chatCalls, i - 1)
    /\ messages' = Append(messages,
                     [text |-> IF r.kind = "ok" THEN r.text ELSE Fallback,
                      isUser |-> FALSE])
    /\ isChatProcessing' = (r.kind # "ok" /\ isChatProcessing)

\* handleSendMessage from the settling of its fetch on
chatSettled(i, r) ==
    /\ chatCalls' = removeAt(chatCalls, i - 1)
    /\ messages' = Append(messages,
                     [text |-> IF r.kind = "ok" THEN r.text ELSE Fallback,
                      isUser |-> FALSE])
    /\ isChatProcessing' = FALSE

\* <Input disabled=...>, line 635
inputDisabled == isChatProcessing \/ llmConfig.type = NULL

\* the send <Button disabled=...>, line 640
sendDisabled ==
    ~Truthy(trim(inputMessage)) \/ isChatProcessing \/ llmConfig.type = NULL

chatFrame ==
    UNCHANGED <<actions, llmConfig, isConnecting, editorContent, isProcessing,
                error, alert, actionCalls, connectCalls>>

userMessages == { i \in 1..Len(messages) : messages[i].isUser }

\* room left in the explored transcript and request list
chatRoom ==
    Cardinality(userMessages) < MaxSends /\ Len(chatCalls) < MaxInFlight

\* Enter in the chat input
SendKeyDown ==
    /\ alert = <<>>
    /\ ~inputDisabled
    /\ chatRoom
    /\ handleSendMessage
    /\ chatFrame

\* click on the send button
SendClick ==
    /\ alert = <<>>
    /\ ~sendDisabled
    /\ chatRoom
    /\ handleSendMessage
    /\ chatFrame

ChatResolve(i, r) ==
    /\ alert = <<>>
    /\ chatSettled(i, r)
    /\ UNCHANGED <<inputMessage>>
    /\ chatFrame

\* onChange of the chat input
EditInput(t) ==
    /\ alert = <<>>
    /\ ~inputDisabled
    /\ inputMessage' = t
    /\ UNCHANGED <<messages, isChatProcessing, chatCalls>>
    /\ chatFrame

-----------------------------------------------------------------------------
(* Actions on the editor: handleActionClick *)

\* String.prototype.toLowerCase on the names the model uses
toLowerCase(name) ==
    CASE name = "Expand" -> "expand"
      [] name = "Shorten" -> "shorten"
      [] name = "Critique" -> "critique"
      [] name = "New Action" -> "new action"
      [] name = "Rewrite" -> "rewrite"

\* what handleActionClick does past its guards, up to its await
submitAction(action) ==
    /\ isProcessing' = TRUE
    /\ actionCalls' = Append(actionCalls,
                        [action |-> toLowerCase(action.name),
                         action_description |-> action.action,
                         text |-> editorContent])
    /\ alert' = alert

\* seeded fault: the editor content is tested without trim()
handleActionClick_noTrim(action) ==
    IF llmConfig.type = NULL
    THEN /\ alert' = << <<"Please connect to an LLM first">> >>
         /\ UNCHANGED <<isProcessing, actionCalls>>
    ELSE IF ~Truthy(editorContent)
    THEN /\ alert' = << <<"Please enter some text in the editor first">> >>
         /\ UNCHANGED <<isProcessing, actionCalls>>
    ELSE submitAction(action)

handleActionClick(action) ==
    IF llmConfig.type = NULL
    THEN /\ alert' = << <<"Please connect to an LLM first">> >>
         /\ UNCHANGED <<isProcessing, actionCalls>>
    ELSE IF ~Truthy(trim(editorContent))
    THEN /\ alert' = << <<"Please enter some text in the editor first">> >>
         /\ UNCHANGED <<isProcessing, actionCalls>>
    ELSE submitAction(action)

\* seeded fault: a response to text the user has edited since is dropped
actionSettled_skipIfEdited(i, r) ==
    /\ actionCalls' = removeAt(actionCalls, i - 1)
    /\ IF r.kind = "ok"
       THEN /\ editorContent' = IF editorContent = actionCalls[i].text
                                 THEN r.text ELSE editorContent
            /\ alert' = alert
       ELSE /\ alert' = << IF r.kind = "http_error"
                           THEN (IF Truthy(r.detail) THEN r.detail
                                 ELSE <<"Failed to process action">>)
                           ELSE thrownMessage(r) >>
            /\ editorContent' = editorContent
    /\ isProcessing' = FALSE

\* seeded fault: isProcessing is cleared after the try block, not in finally,
\* so the catch path leaves it set
actionSettled_noFinally(i, r) ==
    /\ actionCalls' = removeAt(actionCalls, i - 1)
    /\ IF r.kind = "ok"
       THEN /\ editorContent' = r.text
            /\ alert' = alert
            /\ isProcessing' = FALSE
       ELSE /\ alert' = << IF r.kind = "http_error"
                           THEN (IF Truthy(r.detail) THEN r.detail
                                 ELSE <<"Failed to process action">>)
                           ELSE thrownMessage(r) >>
            /\ editorContent' = editorContent
            /\ isProcessing' = isProcessing

\* handleActionClick from the settling of its fetch on
actionSettled(i, r) ==
    /\ actionCalls' = removeAt(actionCalls, i - 1)
    /\ IF r.kind = "ok"
       THEN /\ editorContent' = r.text
            /\ alert' = alert
       ELSE /\ alert' = << IF r.kind = "http_error"
                           THEN (IF Truthy(r.detail) THEN r.detail
                                 ELSE <<"Failed to process action">>)
                           ELSE thrownMessage(r) >>
            /\ editorContent' = editorContent
    /\ isProcessing' = FALSE

\* seeded fault: the action buttons stay enabled while a request is out
actionDisabled_noProcessing == llmConfig.type = NULL

\* seeded fault: the action buttons are disabled while a chat request is out
actionDisabled_anyBusy ==
    isProcessing \/ isChatProcessing \/ llmConfig.type = NULL

\* an action <Button disabled=...>, line 357
actionDisabled == isProcessing \/ llmConfig.type = NULL

actionFrame ==
    UNCHANGED <<actions, llmConfig, isConnecting, messages, inputMessage,
                isChatProcessing, error, chatCalls, connectCalls>>

ActionButtonClick(i) ==
    /\ alert = <<>>
    /\ ~actionDisabled
    /\ Len(actionCalls) < MaxInFlight
    /\ handleActionClick(actions[i])
    /\ UNCHANGED editorContent
    /\ actionFrame

ActionResolve(i, r) ==
    /\ alert = <<>>
    /\ actionSettled(i, r)
    /\ actionFrame

\* the Editor's onUpdate, line 543
EditEditor(t) ==
    /\ alert = <<>>
    /\ editorContent' = t
    /\ UNCHANGED <<isProcessing, alert, actionCalls>>
    /\ actionFrame

\* the user closes the alert dialog
DismissAlert ==
    /\ alert # <<>>
    /\ alert' = <<>>
    /\ UNCHANGED <<actions, llmConfig, isConnecting, editorContent,
                   isProcessing, messages, inputMessage, isChatProcessing,
                   error, chatCalls, actionCalls, connectCalls>>

-----------------------------------------------------------------------------
(* Specifications *)

Connect ==
    \E selectedLLM \in {"openai", "llama"}, apiKey \in ApiKeys,
       host \in Hosts, port \in Ports :
        ConnectClick(selectedLLM, apiKey, host, port)

ConnectSettle ==
    \E i \in 1..Len(connectCalls), r \in ConnectResponses : ConnectResolve(i, r)

ChatSettle ==
    \E i \in 1..Len(chatCalls), r \in ChatResponses : ChatResolve(i, r)

ActionClick == \E i \in 1..Len(actions) : ActionButtonClick(i)

ActionSettle ==
    \E i \in 1..Len(actionCalls), r \in ActionResponses : ActionResolve(i, r)

TypeInput == \E t \in ChatInputs : EditInput(t)

TypeEditor == \E t \in EditorTexts : EditEditor(t)

NextSession ==
    \/ Connect
    \/ ConnectSettle
    \/ SendKeyDown
    \/ SendClick
    \/ ChatSettle
    \/ TypeInput
    \/ ActionClick
    \/ ActionSettle
    \/ TypeEditor
    \/ DismissAlert

NextActionList == AddAction \/ UpdateAction \/ DeleteAction \/ DragEnd

Next == NextActionList \/ NextSession

\* The action list and the rest of the state meet only in the request body
\* of an action click, which reads the clicked item; each part is explored
\* by a specification of its own.

\* the whole component
Spec == Init /\ [][Next]_vars

\* the action list of the Configure tab alone
SpecActionList == Init /\ [][NextActionList]_vars

\* connection, editor and chat, with the default action list
SpecSession == Init /\ [][NextSession]_vars

\* Every issued call resolves: the continuation of a fetch runs at some
\* point of the event loop, however often an alert dialog holds the loop up,
\* and the user closes every alert dialog.
SessionFairness ==
    /\ SF_vars(ChatSettle)
    /\ SF_vars(ActionSettle)
    /\ SF_vars(ConnectSettle)
    /\ WF_vars(DismissAlert)

SpecSessionFair == SpecSession /\ SessionFairness

-----------------------------------------------------------------------------
(* Properties *)

\* a text that is empty or holds whitespace only
AllWhite(s) == \A i \in 1..Len(s) : s[i] \in WhiteSpace

Count(s, x) == Cardinality({ i \in 1..Len(s) : s[i] = x })

\* t holds the elements of s, each as often as s does
IsPermutation(s, t) ==
    /\ Len(s) = Len(t)
    /\ \A i \in 1..Len(s) : Count(s, s[i]) = Count(t, s[i])

\* C1: the ids of the action list are pairwise distinct in every reachable
\* state, so an added item gets an id no existing item has.
C1_IdsDistinct ==
    \A i, j \in 1..Len(actions) : i # j => actions[i].id # actions[j].id

\* C2: the delete button of the item at position i removes that one item:
\* the list gets shorter by one and the other items stay, unmodified and in
\* the same order.
C2_DeleteRemovesOne ==
    [][\A i \in 1..Len(actions) :
          handleDeleteAction(actions[i].id) =>
              actions' = removeAt(actions, i - 1)]_vars

\* C3: at most one POST /api/chat request is unresolved, and isChatProcessing
\* is true exactly while one is.
C3_OneChatInFlight ==
    /\ Len(chatCalls) <= 1
    /\ isChatProcessing <=> Len(chatCalls) = 1

C3_Witness ==
    /\ Len(chatCalls) = 1
    /\ isChatProcessing
    /\ Cardinality(userMessages) = 2

noNewRequest ==
    /\ Len(chatCalls') <= Len(chatCalls)
    /\ Len(actionCalls') <= Len(actionCalls)

connectSucceeds ==
    \E i \in 1..Len(connectCalls), r \in ConnectResponses :
        r.kind = "json" /\ r.success /\ ConnectResolve(i, r)

connectFails ==
    \E i \in 1..Len(connectCalls), r \in ConnectResponses :
        ~(r.kind = "json" /\ r.success) /\ ConnectResolve(i, r)

\* C4 as stated: while llmConfig.type is null no chat or action request is
\* issued; a successful connect leaves llmConfig.type non-null; and then every
\* action click and every send of a non-empty chat input issues its request.
C4_Original ==
    [][/\ llmConfig.type = NULL => noNewRequest
       /\ connectSucceeds => llmConfig'.type # NULL
       /\ ActionClick => Len(actionCalls') = Len(actionCalls) + 1
       /\ (SendKeyDown \/ SendClick) /\ inputMessage # <<>> =>
              Len(chatCalls') = Len(chatCalls) + 1]_vars

\* C4 amended: as C4, with the requests issued by an action click on editor
\* content that is not empty or whitespace-only and by a send of a chat input
\* that is not empty or whitespace-only.
C4_Gating ==
    [][/\ llmConfig.type = NULL => noNewRequest
       /\ connectSucceeds => llmConfig'.type # NULL
       /\ ActionClick /\ ~AllWhite(editorContent) =>
              Len(actionCalls') = Len(actionCalls) + 1
       /\ (SendKeyDown \/ SendClick) /\ ~AllWhite(inputMessage) =>
              Len(chatCalls') = Len(chatCalls) + 1]_vars

C4_Witness ==
    /\ llmConfig.type # NULL
    /\ Len(chatCalls) = 1
    /\ Len(actionCalls) = 1

\* C5: a connect attempt that resolves with a failure leaves llmConfig.type
\* null, whatever it was; llmConfig changes to a non-null type only in a step
\* that resolves a connect attempt with success.
C5_FailureReverts ==
    [][/\ connectFails => llmConfig'.type = NULL
       /\ llmConfig' # llmConfig /\ llmConfig'.type # NULL => connectSucceeds]_vars

\* a failed update of a connection that had served a chat
C5_Witness ==
    /\ llmConfig.type = NULL
    /\ alert = << <<"Invalid", " ", "key">> >>
    /\ userMessages # {}

requiredBlank(selectedLLM, apiKey, host, port) ==
    \/ selectedLLM = "openai" /\ AllWhite(apiKey)
    \/ selectedLLM = "llama" /\ (AllWhite(host) \/ AllWhite(port))

\* C6: a connect click whose required fields are empty or whitespace-only
\* sets the inline error, issues no connect request and leaves llmConfig and
\* isConnecting as they were.
C6_RejectsBlank ==
    [][\A selectedLLM \in {"openai", "llama"}, apiKey \in ApiKeys,
          host \in Hosts, port \in Ports :
          /\ requiredBlank(selectedLLM, apiKey, host, port)
          /\ ConnectClick(selectedLLM, apiKey, host, port)
          => /\ error' = IF selectedLLM = "openai" THEN "API key is required"
                         ELSE "Host and port are required"
             /\ connectCalls' = connectCalls
             /\ llmConfig' = llmConfig
             /\ isConnecting' = isConnecting]_vars

C6_Witness ==
    /\ error = "Host and port are required"
    /\ connectCalls = <<>>
    /\ llmConfig.type = "openai"

chatFails(i) ==
    \E r \in ChatResponses : r.kind # "ok" /\ ChatResolve(i, r)

\* C7: a chat request that resolves with a failure appends exactly the
\* fallback assistant message, right after the user message that request
\* sent, changes no other message and clears isChatProcessing.
C7_FallbackOnFailure ==
    [][\A i \in 1..Len(chatCalls) :
          chatFails(i) =>
              /\ messages[Len(messages)] =
                     [text |-> chatCalls[i].message, isUser |-> TRUE]
              /\ messages' = Append(messages,
                                    [text |-> Fallback, isUser |-> FALSE])
              /\ isChatProcessing' = FALSE]_vars

C7_Witness ==
    /\ Len(messages) = 3
    /\ messages[2].isUser
    /\ messages[3] = [text |-> Fallback, isUser |-> FALSE]
    /\ ~isChatProcessing

\* C8: in every reachable state a drag end, over any target or none, leaves
\* a permutation of the action list with every item as it was, and leaves the
\* list as it was when the dragged id is the target id.
C8_DragPermutes ==
    \A activeId \in ItemIds(actions),
       overId \in ItemIds(actions) \cup {Undefined} :
        /\ IsPermutation(actions, dragged(actions, activeId, overId))
        /\ activeId = overId => dragged(actions, activeId, overId) = actions

C8_Witness ==
    /\ Len(actions) = 3
    /\ actions[1].id = "3"
    /\ actions[2].id = "1"
    /\ actions[3].id = "2"

\* C9: an action click on editor content that is empty or whitespace-only
\* raises the enter-some-text alert, issues no action request and leaves
\* editorContent and isProcessing as they were.
C9_BlankEditorNoCall ==
    [][AllWhite(editorContent) /\ ActionClick =>
          /\ alert' = << <<"Please enter some text in the editor first">> >>
          /\ actionCalls' = actionCalls
          /\ editorContent' = editorContent
          /\ isProcessing' = isProcessing]_vars

C9_Witness ==
    /\ alert = << <<"Please enter some text in the editor first">> >>
    /\ editorContent = <<" ">>
    /\ actionCalls = <<>>

\* C10: a chat send of an input that is empty or whitespace-only issues no
\* chat request and leaves messages, inputMessage and isChatProcessing as
\* they were.
C10_BlankSendNoCall ==
    [][AllWhite(inputMessage) /\ (SendKeyDown \/ SendClick) =>
          /\ chatCalls' = chatCalls
          /\ messages' = messages
          /\ inputMessage' = inputMessage
          /\ isChatProcessing' = isChatProcessing]_vars

\* Enter can be pressed on a whitespace-only input
C10_Witness ==
    /\ inputMessage = <<" ">>
    /\ ~inputDisabled
    /\ alert = <<>>
    /\ chatRoom

IsPrefix(s, t) == Len(s) <= Len(t) /\ SubSeq(t, 1, Len(s)) = s

\* C11: in every step the message list before it is a prefix of the message
\* list after it: no message is removed, reordered or modified, and messages
\* are added at the end only.
C11_AppendOnly == [][IsPrefix(messages, messages')]_vars

C11_Witness ==
    /\ Len(messages) = 5
    /\ messages[1] = [text |-> Greeting, isUser |-> FALSE]
    /\ messages[3] = [text |-> Fallback, isUser |-> FALSE]
    /\ messages[5] = [text |-> <<"reply">>, isUser |-> FALSE]

\* C12: at most one POST /api/submit_action request is unresolved, over all
\* action buttons, with isProcessing true exactly while one is; at most one
\* POST /api/connect_llm request is unresolved, with isConnecting true
\* exactly while one is.
C12_OneSubmissionPerKind ==
    /\ Len(actionCalls) <= 1
    /\ isProcessing <=> Len(actionCalls) = 1
    /\ Len(connectCalls) <= 1
    /\ isConnecting <=> Len(connectCalls) = 1

\* an action request and a connection update unresolved together
C12_Witness ==
    /\ Len(actionCalls) = 1
    /\ isProcessing
    /\ Len(connectCalls) = 1
    /\ isConnecting

issuesAction == ActionClick /\ Len(actionCalls') = Len(actionCalls) + 1

issuesChat == SendClick /\ Len(chatCalls') = Len(chatCalls) + 1

\* C13: a chat request out does not keep an action click from issuing its
\* request, nor an action request out a chat send; and with one request of
\* each kind out, either of the two can resolve next.
C13_NoCrossOrdering ==
    /\ ( /\ alert = <<>>
         /\ llmConfig.type # NULL
         /\ isChatProcessing
         /\ ~isProcessing
         /\ ~AllWhite(editorContent) ) => ENABLED issuesAction
    /\ ( /\ alert = <<>>
         /\ llmConfig.type # NULL
         /\ isProcessing
         /\ ~isChatProcessing
         /\ ~AllWhite(inputMessage)
         /\ chatRoom ) => ENABLED issuesChat
    /\ ( /\ alert = <<>>
         /\ chatCalls # <<>>
         /\ actionCalls # <<>> ) => (ENABLED ChatSettle /\ ENABLED ActionSettle)

\* a chat request and an action request out together
C13_Witness ==
    /\ isChatProcessing
    /\ isProcessing
    /\ chatCalls # <<>>
    /\ actionCalls # <<>>
    /\ alert = <<>>

\* C14: when an action request resolves with success, editorContent becomes
\* the response text, whatever the editor holds by then; when it resolves
\* with an error, editorContent stays as it is.
C14_ResponseReplaces ==
    [][\A i \in 1..Len(actionCalls), r \in ActionResponses :
          ActionResolve(i, r) =>
              editorContent' = IF r.kind = "ok" THEN r.text
                               ELSE editorContent]_vars

C14_Witness ==
    /\ editorContent = <<"revised">>
    /\ ~isProcessing
    /\ actionCalls = <<>>

\* C15: a flag is true while a call of its kind is unresolved, the step that
\* resolves the call clears it, with success or with any failure, and, every
\* issued call resolving at some point, a flag that is true becomes false.
C15_FlagsFollowCalls ==
    /\ [](chatCalls # <<>> => isChatProcessing)
    /\ [](actionCalls # <<>> => isProcessing)
    /\ [](connectCalls # <<>> => isConnecting)
    /\ [][/\ ChatSettle => ~isChatProcessing'
          /\ ActionSettle => ~isProcessing'
          /\ ConnectSettle => ~isConnecting']_vars
    /\ isChatProcessing ~> ~isChatProcessing
    /\ isProcessing ~> ~isProcessing
    /\ isConnecting ~> ~isConnecting

\* the three kinds of call out together
C15_Witness ==
    /\ isChatProcessing /\ Len(chatCalls) = 1
    /\ isProcessing /\ Len(actionCalls) = 1
    /\ isConnecting /\ Len(connectCalls) = 1

\* C16: the transcript starts with the assistant greeting, no two adjacent
\* messages have the same isUser, so a user message is followed by at most
\* one assistant message, and the last message is a user message exactly
\* when isChatProcessing is true.
C16_Alternates ==
    /\ messages[1] = [text |-> Greeting, isUser |-> FALSE]
    /\ \A i \in 1..(Len(messages) - 1) :
           messages[i].isUser # messages[i + 1].isUser
    /\ messages[Len(messages)].isUser <=> isChatProcessing

\* the second user message waits for its reply
C16_Witness ==
    /\ Len(messages) = 4
    /\ messages[4].isUser
    /\ isChatProcessing
    /\ Len(chatCalls) = 1

=============================================================================
